---- MODULE Spec2Model ----
(***************************************************************************)
(* Word-snake arena: run_experiments drives num_experiments games, each    *)
(* game (run_experiment) alternates chat calls between model A and model B *)
(* over one shared transcript and appends one result row to the CSV file.  *)
(*                                                                         *)
(* Text is modelled as a sequence of one-character strings so that         *)
(* str.strip, str.lower, the "in" substring test and len are computed.     *)
(***************************************************************************)
EXTENDS Integers, Sequences, FiniteSets, TLC

VARIABLES
    num_experiments,  \* run_experiments parameter
    max_turns,        \* run_experiments / run_experiment parameter
    experiment,       \* loop variable of run_experiments (0 before the first game)
    pc,               \* "runner" | "game" | "end" | "crashed" ("swap0".."swap2" in SpecSwap)
    i,                \* loop variable of run_experiment
    messages,         \* the transcript list of run_experiment
    csv,              \* rows appended to csv_file after the header
    response,         \* raw content returned by the last chat call
    sent,             \* message list passed to the last chat call
    sent_to,          \* "A" (model_a) or "B" (model_b): endpoint of the last chat call
    speakers,         \* current_model_name of every completed turn of the game
    calls,            \* chat calls made by the current game
    swap_in,          \* argument of swap_roles (conversation-adapter harness)
    swap_out,         \* swap_roles(swap_in)
    swap_back         \* swap_roles(swap_out)

gameVars == <<num_experiments, max_turns, experiment, pc, i, messages, csv,
              response, sent, sent_to, speakers, calls>>
swapVars == <<swap_in, swap_out, swap_back>>
vars == <<num_experiments, max_turns, experiment, pc, i, messages, csv,
          response, sent, sent_to, speakers, calls, swap_in, swap_out, swap_back>>

-----------------------------------------------------------------------------
(* Bounds *)

MaxTurns == 3
MaxExperiments == 2
MaxMsgs == 3

-----------------------------------------------------------------------------
(* Text helpers *)

Upper == <<"A","B","C","D","E","F","G","H","I","J","K","L","M",
           "N","O","P","Q","R","S","T","U","V","W","X","Y","Z">>
Lower == <<"a","b","c","d","e","f","g","h","i","j","k","l","m",
           "n","o","p","q","r","s","t","u","v","w","x","y","z">>

Whitespace == {" ", "\t", "\n", "\r", "\f"}

UpperSet == {Upper[k] : k \in 1..Len(Upper)}
LowerOf == [c \in UpperSet |-> Lower[CHOOSE k \in 1..Len(Upper) : Upper[k] = c]]

lowerChar(c) == IF c \in UpperSet THEN LowerOf[c] ELSE c

\* str.lower()
lower(s) == [k \in 1..Len(s) |-> lowerChar(s[k])]

RECURSIVE lstrip(_)
lstrip(s) ==
    IF s # <<>> /\ Head(s) \in Whitespace THEN lstrip(Tail(s)) ELSE s

RECURSIVE rstrip(_)
rstrip(s) ==
    IF s # <<>> /\ s[Len(s)] \in Whitespace
    THEN rstrip(SubSeq(s, 1, Len(s) - 1))
    ELSE s

\* str.strip()
strip(s) == rstrip(lstrip(s))

\* needle in haystack
Contains(needle, haystack) ==
    \E k \in 0..(Len(haystack) - Len(needle)) :
        SubSeq(haystack, k + 1, k + Len(needle)) = needle

Fill(n) == [k \in 1..n |-> "x"]

-----------------------------------------------------------------------------
(* Program constants *)

MaxLen == 30

forfeit == <<"f","o","r","f","e","i","t">>
disqualified == <<"d","i","s","q","u","a","l","i","f","i","e","d">>

forfeited_suffix == <<" ","f","o","r","f","e","i","t","e","d">>
disqualified_infix == <<" ","d","i","s","q","u","a","l","i","f","i","e","d",":"," ">>
too_long_suffix == <<" ","r","e","s","p","o","n","s","e"," ","t","o","o"," ",
                     "l","o","n","g"," ","(","s","o"," ","n","o","t"," ","a","n"," ",
                     "a","n","i","m","a","l",")">>
no_conclusion == <<"N","o"," ","c","o","n","c","l","u","s","i","o","n">>

starting_animal == <<"G","i","r","a","f","f","e">>

\* The system instruction is one opaque text: no code inspects its characters.
system_prompt == <<"word-snake instruction">>

seed_messages ==
    << [role |-> "system", content |-> system_prompt],
       [role |-> "user", content |-> starting_animal] >>

-----------------------------------------------------------------------------
(* Replies the chat collaborator may return (before strip) *)

\* Contains neither keyword: "Disqualify forfei t".
near_miss == <<"D","i","s","q","u","a","l","i","f","y"," ","f","o","r","f","e","i"," ","t">>

Replies ==
    { <<"E","l","e","p","h","a","n","t">>,
      <<" ">> \o near_miss \o Fill(MaxLen - Len(near_miss)) \o <<"\n">>,
      near_miss \o Fill(MaxLen + 1 - Len(near_miss)),
      <<"I"," ","f","o","r","f","e","i","t"," ","t","h","e"," ","g","a","m","e",".">>,
      <<"\t","I"," ","F","O","R","F","E","I","T"," ">>,
      <<"D","i","s","q","u","a","l","i","f","i","e","d",":"," ","r","e","p","e","a","t">>,
      Fill(MaxLen) \o <<"D","I","S","Q","U","A","L","I","F","I","E","D","\n">>,
      <<"Y","o","u"," ","a","r","e"," ","d","i","s","q","u","a","l","i","f","i","e","d",
        ","," ","I"," ","f","o","r","f","e","i","t">> }

-----------------------------------------------------------------------------
(* Conversation adapter *)

\* Slip: only user is rewritten.
swap_role_one_way(role) ==
    IF role = "user" THEN "assistant" ELSE role

\* Slip: the else branch falls back to user instead of keeping the role.
swap_role_default_user(role) ==
    IF role = "user" THEN "assistant" ELSE "user"

swap_role(role) ==
    IF role = "user" THEN "assistant"
    ELSE IF role = "assistant" THEN "user"
    ELSE role

swap_roles(msgs) ==
    [k \in 1..Len(msgs) |->
        [role |-> swap_role(msgs[k].role), content |-> msgs[k].content]]

-----------------------------------------------------------------------------
(* Termination rules of run_experiment *)

other_model_name(current) == IF current = "A" THEN "B" ELSE "A"

\* Slip: the reply is not lower-cased before the test.
is_forfeit_case_sensitive(content) == Contains(forfeit, content)
is_forfeit(content) == Contains(forfeit, lower(content))
is_disqualified(content) == Contains(disqualified, lower(content))
\* Slip: >= instead of >.
is_too_long_from_limit(content) == Len(content) >= MaxLen
is_too_long(content) == Len(content) > MaxLen

\* Slip: the forfeiting speaker is recorded as the winner.
forfeit_winner_speaker(current) == IF current = "A" THEN "Model A" ELSE "Model B"
forfeit_winner(current) == IF current = "A" THEN "Model B" ELSE "Model A"
\* Slip: the disqualification branch copies the forfeit branch.
disqualified_winner_opponent(current) == IF current = "A" THEN "Model B" ELSE "Model A"
disqualified_winner(current) == IF current = "B" THEN "Model B" ELSE "Model A"
too_long_winner(current) == IF current = "A" THEN "Model B" ELSE "Model A"

forfeit_reason(current) == <<current>> \o forfeited_suffix
\* Slip: the reason names the speaker instead of the other model.
disqualified_reason_names_speaker(current, content) ==
    <<current>> \o disqualified_infix \o content
disqualified_reason(current, content) ==
    <<other_model_name(current)>> \o disqualified_infix \o content
too_long_reason(current) == <<current>> \o too_long_suffix

NoVerdict == [winner |-> "", reason |-> <<>>]

\* Slip: the length test comes first.
verdict_length_first(current, content) ==
    IF is_too_long(content)
    THEN [winner |-> too_long_winner(current), reason |-> too_long_reason(current)]
    ELSE IF is_forfeit(content)
    THEN [winner |-> forfeit_winner(current), reason |-> forfeit_reason(current)]
    ELSE IF is_disqualified(content)
    THEN [winner |-> disqualified_winner(current),
          reason |-> disqualified_reason(current, content)]
    ELSE NoVerdict

\* Slip: the length test comes before the disqualification test.
verdict_length_second(current, content) ==
    IF is_forfeit(content)
    THEN [winner |-> forfeit_winner(current), reason |-> forfeit_reason(current)]
    ELSE IF is_too_long(content)
    THEN [winner |-> too_long_winner(current), reason |-> too_long_reason(current)]
    ELSE IF is_disqualified(content)
    THEN [winner |-> disqualified_winner(current),
          reason |-> disqualified_reason(current, content)]
    ELSE NoVerdict

\* The if / elif / elif chain evaluated after each reply.
verdict(current, content) ==
    IF is_forfeit(content)
    THEN [winner |-> forfeit_winner(current), reason |-> forfeit_reason(current)]
    ELSE IF is_disqualified(content)
    THEN [winner |-> disqualified_winner(current),
          reason |-> disqualified_reason(current, content)]
    ELSE IF is_too_long(content)
    THEN [winner |-> too_long_winner(current), reason |-> too_long_reason(current)]
    ELSE NoVerdict

\* Slip: the file is opened with mode 'w', so earlier rows are lost.
save_winner_to_csv_truncates(rows, experiment_number, model_winner, reason_winner) ==
    << [experiment_number |-> experiment_number,
        winner |-> model_winner,
        reason |-> reason_winner] >>

save_winner_to_csv(rows, experiment_number, model_winner, reason_winner) ==
    Append(rows, [experiment_number |-> experiment_number,
                  winner |-> model_winner,
                  reason |-> reason_winner])

-----------------------------------------------------------------------------
(* State machine *)

Init ==
    /\ num_experiments \in 0..MaxExperiments
    /\ max_turns \in 0..MaxTurns
    /\ experiment = 0
    /\ pc = "runner"
    /\ i = 0
    /\ messages = <<>>
    /\ csv = <<>>
    /\ response = <<>>
    /\ sent = <<>>
    /\ sent_to = "none"
    /\ speakers = <<>>
    /\ calls = 0
    /\ swap_in = <<>>
    /\ swap_out = <<>>
    /\ swap_back = <<>>

\* Slip: the transcript is built once, outside run_experiment, and shared.
StartGame_keeps_transcript ==
    /\ pc = "runner"
    /\ experiment < num_experiments
    /\ experiment' = experiment + 1
    /\ messages' = IF experiment = 0 THEN seed_messages ELSE messages
    /\ i' = 0
    /\ pc' = "game"
    /\ response' = <<>>
    /\ sent' = <<>>
    /\ sent_to' = "none"
    /\ speakers' = <<>>
    /\ calls' = 0
    /\ UNCHANGED <<num_experiments, max_turns, csv>>
    /\ UNCHANGED swapVars

\* run_experiments: next iteration of the for loop, entering run_experiment.
StartGame ==
    /\ pc = "runner"
    /\ experiment < num_experiments
    /\ experiment' = experiment + 1
    /\ messages' = seed_messages
    /\ i' = 0
    /\ pc' = "game"
    /\ response' = <<>>
    /\ sent' = <<>>
    /\ sent_to' = "none"
    /\ speakers' = <<>>
    /\ calls' = 0
    /\ UNCHANGED <<num_experiments, max_turns, csv>>
    /\ UNCHANGED swapVars

\* Slip: the break statements are missing, so a decided game plays on and
\* the else clause of the loop writes a second row.
Turn_no_break(current, view, response_role, raw) ==
    LET response_content == strip(raw)
        v == verdict(current, response_content)
        decided == IF v # NoVerdict
                   THEN save_winner_to_csv(csv, experiment, v.winner, v.reason)
                   ELSE csv
    IN  /\ sent' = view
        /\ sent_to' = current
        /\ calls' = calls + 1
        /\ response' = raw
        /\ speakers' = Append(speakers, current)
        /\ messages' = Append(messages,
                              [role |-> response_role, content |-> response_content])
        /\ IF i = max_turns
           THEN /\ csv' = save_winner_to_csv(decided, experiment, "No winner", no_conclusion)
                /\ pc' = "runner"
                /\ i' = i
           ELSE /\ csv' = decided
                /\ pc' = "game"
                /\ i' = i + 1
        /\ UNCHANGED <<num_experiments, max_turns, experiment>>
        /\ UNCHANGED swapVars

\* Slip: range(0, max_turns) instead of range(0, max_turns + 1).
Turn_short_loop(current, view, response_role, raw) ==
    LET response_content == strip(raw)
        v == verdict(current, response_content)
    IN  /\ sent' = view
        /\ sent_to' = current
        /\ calls' = calls + 1
        /\ response' = raw
        /\ speakers' = Append(speakers, current)
        /\ messages' = Append(messages,
                              [role |-> response_role, content |-> response_content])
        /\ IF v # NoVerdict
           THEN /\ csv' = save_winner_to_csv(csv, experiment, v.winner, v.reason)
                /\ pc' = "runner"
                /\ i' = i
           ELSE IF i + 1 >= max_turns
           THEN /\ csv' = save_winner_to_csv(csv, experiment, "No winner", no_conclusion)
                /\ pc' = "runner"
                /\ i' = i
           ELSE /\ csv' = csv
                /\ pc' = "game"
                /\ i' = i + 1
        /\ UNCHANGED <<num_experiments, max_turns, experiment>>
        /\ UNCHANGED swapVars

\* Slip: while True instead of the bounded for loop.
Turn_unbounded_loop(current, view, response_role, raw) ==
    LET response_content == strip(raw)
        v == verdict(current, response_content)
    IN  /\ sent' = view
        /\ sent_to' = current
        /\ calls' = calls + 1
        /\ response' = raw
        /\ speakers' = Append(speakers, current)
        /\ messages' = Append(messages,
                              [role |-> response_role, content |-> response_content])
        /\ IF v # NoVerdict
           THEN /\ csv' = save_winner_to_csv(csv, experiment, v.winner, v.reason)
                /\ pc' = "runner"
                /\ i' = i
           ELSE /\ csv' = csv
                /\ pc' = "game"
                /\ i' = i + 1
        /\ UNCHANGED <<num_experiments, max_turns, experiment>>
        /\ UNCHANGED swapVars

\* One iteration of the turn loop in which chat returned `raw`.
Turn(current, view, response_role, raw) ==
    LET response_content == strip(raw)
        v == verdict(current, response_content)
    IN  /\ sent' = view
        /\ sent_to' = current
        /\ calls' = calls + 1
        /\ response' = raw
        /\ speakers' = Append(speakers, current)
        /\ messages' = Append(messages,
                              [role |-> response_role, content |-> response_content])
        /\ IF v # NoVerdict
           THEN /\ csv' = save_winner_to_csv(csv, experiment, v.winner, v.reason)
                /\ pc' = "runner"
                /\ i' = i
           ELSE IF i = max_turns
           THEN /\ csv' = save_winner_to_csv(csv, experiment, "No winner", no_conclusion)
                /\ pc' = "runner"
                /\ i' = i
           ELSE /\ csv' = csv
                /\ pc' = "game"
                /\ i' = i + 1
        /\ UNCHANGED <<num_experiments, max_turns, experiment>>
        /\ UNCHANGED swapVars

TurnA ==
    /\ pc = "game"
    /\ i % 2 = 0
    /\ \E raw \in Replies : Turn("A", messages, "assistant", raw)

\* Slip: B's reply is stored with the role B sees, not the canonical one.
TurnB_stores_assistant ==
    /\ pc = "game"
    /\ i % 2 # 0
    /\ \E raw \in Replies : Turn("B", swap_roles(messages), "assistant", raw)

\* Slip: B is called with the transcript as stored.
TurnB_unswapped ==
    /\ pc = "game"
    /\ i % 2 # 0
    /\ \E raw \in Replies : Turn("B", messages, "user", raw)

\* Slip: the swapped list replaces the transcript before B's reply is appended.
TurnB_swaps_in_place ==
    /\ pc = "game"
    /\ i % 2 # 0
    /\ \E raw \in Replies :
          LET response_content == strip(raw)
              v == verdict("B", response_content)
          IN  /\ sent' = swap_roles(messages)
              /\ sent_to' = "B"
              /\ calls' = calls + 1
              /\ response' = raw
              /\ speakers' = Append(speakers, "B")
              /\ messages' = Append(swap_roles(messages),
                                    [role |-> "user", content |-> response_content])
              /\ IF v # NoVerdict
                 THEN /\ csv' = save_winner_to_csv(csv, experiment, v.winner, v.reason)
                      /\ pc' = "runner"
                      /\ i' = i
                 ELSE IF i = max_turns
                 THEN /\ csv' = save_winner_to_csv(csv, experiment, "No winner", no_conclusion)
                      /\ pc' = "runner"
                      /\ i' = i
                 ELSE /\ csv' = csv
                      /\ pc' = "game"
                      /\ i' = i + 1
              /\ UNCHANGED <<num_experiments, max_turns, experiment>>
              /\ UNCHANGED swapVars

TurnB ==
    /\ pc = "game"
    /\ i % 2 # 0
    /\ \E raw \in Replies : Turn("B", swap_roles(messages), "user", raw)

\* Slip: the failure is caught in run_experiment and recorded as a row.
ChatFails_writes_row ==
    /\ pc = "game"
    /\ sent' = IF i % 2 = 0 THEN messages ELSE swap_roles(messages)
    /\ sent_to' = IF i % 2 = 0 THEN "A" ELSE "B"
    /\ calls' = calls + 1
    /\ pc' = "crashed"
    /\ csv' = save_winner_to_csv(csv, experiment, "No winner", no_conclusion)
    /\ UNCHANGED <<num_experiments, max_turns, experiment, i, messages,
                   response, speakers>>
    /\ UNCHANGED swapVars

\* Variant: the failure is caught in the loop of run_experiments, which goes on.
ChatFails_runner_continues ==
    /\ pc = "game"
    /\ sent' = IF i % 2 = 0 THEN messages ELSE swap_roles(messages)
    /\ sent_to' = IF i % 2 = 0 THEN "A" ELSE "B"
    /\ calls' = calls + 1
    /\ pc' = "runner"
    /\ UNCHANGED <<num_experiments, max_turns, experiment, i, messages, csv,
                   response, speakers>>
    /\ UNCHANGED swapVars

\* chat raises: nothing catches it in run_experiment or run_experiments.
ChatFails ==
    /\ pc = "game"
    /\ sent' = IF i % 2 = 0 THEN messages ELSE swap_roles(messages)
    /\ sent_to' = IF i % 2 = 0 THEN "A" ELSE "B"
    /\ calls' = calls + 1
    /\ pc' = "crashed"
    /\ UNCHANGED <<num_experiments, max_turns, experiment, i, messages, csv,
                   response, speakers>>
    /\ UNCHANGED swapVars

\* run_experiments: the for loop is exhausted.
EndAll ==
    /\ pc = "runner"
    /\ experiment >= num_experiments
    /\ pc' = "end"
    /\ UNCHANGED <<num_experiments, max_turns, experiment, i, messages, csv,
                   response, sent, sent_to, speakers, calls>>
    /\ UNCHANGED swapVars

Next == StartGame \/ TurnA \/ TurnB \/ ChatFails \/ EndAll

Spec == Init /\ [][Next]_vars

\* Every chat call returns. The program is one sequential thread, so a step
\* that can be taken is taken.
NextReturning == StartGame \/ TurnA \/ TurnB \/ EndAll

SpecReturning == Init /\ [][NextReturning]_vars /\ WF_vars(NextReturning)

-----------------------------------------------------------------------------
(* Conversation adapter on arbitrary message lists *)

Roles == {"system", "user", "assistant", "tool"}
Contents == {starting_animal, forfeit}
Messages == [role : Roles, content : Contents]

RECURSIVE SeqsUpTo(_, _)
SeqsUpTo(S, n) ==
    IF n = 0 THEN {<<>>}
    ELSE LET shorter == SeqsUpTo(S, n - 1)
         IN  shorter \cup {Append(q, x) : q \in {r \in shorter : Len(r) = n - 1}, x \in S}

noPcVars == <<num_experiments, max_turns, experiment, i, messages, csv,
              response, sent, sent_to, speakers, calls>>

InitSwap ==
    /\ num_experiments = 0
    /\ max_turns = 0
    /\ experiment = 0
    /\ pc = "swap0"
    /\ i = 0
    /\ messages = <<>>
    /\ csv = <<>>
    /\ response = <<>>
    /\ sent = <<>>
    /\ sent_to = "none"
    /\ speakers = <<>>
    /\ calls = 0
    /\ swap_in \in SeqsUpTo(Messages, MaxMsgs)
    /\ swap_out = <<>>
    /\ swap_back = <<>>

\* swapped = swap_roles(m)
SwapOnce ==
    /\ pc = "swap0"
    /\ pc' = "swap1"
    /\ swap_out' = swap_roles(swap_in)
    /\ UNCHANGED <<swap_in, swap_back>>
    /\ UNCHANGED noPcVars

\* swap_roles(swapped)
SwapTwice ==
    /\ pc = "swap1"
    /\ pc' = "swap2"
    /\ swap_back' = swap_roles(swap_out)
    /\ UNCHANGED <<swap_in, swap_out>>
    /\ UNCHANGED noPcVars

NextSwap == SwapOnce \/ SwapTwice

SpecSwap == InitSwap /\ [][NextSwap]_vars

-----------------------------------------------------------------------------
(* Vocabulary of the properties, stated on the raw reply and the CSV rows *)

LowerSet == {Lower[k] : k \in 1..Len(Lower)}
CapitalOf == [d \in LowerSet |-> Upper[CHOOSE k \in 1..Len(Lower) : Lower[k] = d]]

\* c is the letter d in either case (d is a lower-case letter of a keyword).
SameLetter(c, d) == c = d \/ c = CapitalOf[d]

\* text contains keyword kw as a substring, case-insensitively.
HasKeyword(text, kw) ==
    \E off \in 0..(Len(text) - Len(kw)) :
        \A j \in 1..Len(kw) : SameLetter(text[off + j], kw[j])

Solid(text) == {k \in 1..Len(text) : text[k] \notin Whitespace}
FirstOf(S) == CHOOSE k \in S : \A m \in S : k <= m
LastOf(S) == CHOOSE k \in S : \A m \in S : k >= m

\* text without its surrounding whitespace.
Trimmed(text) ==
    LET solid == Solid(text)
    IN  IF solid = {} THEN <<>>
        ELSE LET first == FirstOf(solid)
                 last == LastOf(solid)
             IN  [k \in 1..(last - first + 1) |-> text[first + k - 1]]

ModelOf(agent) == IF agent = "A" THEN "Model A" ELSE "Model B"
Opponent(agent) == IF agent = "A" THEN "B" ELSE "A"

\* A reply has been received in the current game.
TurnTaken == speakers # <<>>
\* The agent that produced the last reply.
Speaker == sent_to
\* The game with id `experiment` has returned to the runner.
GameReturned == experiment >= 1 /\ pc \in {"runner", "end"}
RowsOf(g) == {k \in 1..Len(csv) : csv[k].experiment_number = g}
LastRow == csv[Len(csv)]
\* The game ended on the turn of the last reply: its row is the last one
\* written and no chat call followed that reply.
EndedOnThisTurn ==
    /\ GameReturned
    /\ csv # <<>>
    /\ LastRow.experiment_number = experiment
    /\ calls = Len(speakers)
    /\ i = Len(speakers) - 1

Winners == {"Model A", "Model B", "No winner"}

-----------------------------------------------------------------------------
(* C1 *)

\* C1 (as stated): every game that run_experiment started and that is no
\* longer running has exactly one row in the CSV file, and every winner field
\* is one of "Model A", "Model B", "No winner".
C1_AsStated ==
    /\ \A g \in 1..experiment :
          (g < experiment \/ pc # "game") => Cardinality(RowsOf(g)) = 1
    /\ \A k \in 1..Len(csv) : csv[k].winner \in Winners

\* C1 (amended): a game never has more than one row; every game that
\* returned (all of its chat calls returned) has exactly one row; a game whose
\* chat call failed has none; every winner field is one of the three values.
C1_OneRowPerReturnedGame ==
    /\ \A g \in 1..experiment : Cardinality(RowsOf(g)) <= 1
    /\ \A g \in 1..experiment :
          (g < experiment \/ GameReturned) => Cardinality(RowsOf(g)) = 1
    /\ pc \in {"game", "crashed"} => RowsOf(experiment) = {}
    /\ \A k \in 1..Len(csv) :
          csv[k].winner \in Winners /\ csv[k].experiment_number \in 1..experiment

C1_Witness ==
    /\ pc = "end"
    /\ experiment = 2
    /\ Len(csv) = 2
    /\ csv[1].experiment_number = 1 /\ csv[1].winner = "No winner"
    /\ csv[2].experiment_number = 2 /\ csv[2].winner = "Model A"

-----------------------------------------------------------------------------
(* C2 *)

\* C2: whenever the reply of the active agent contains "forfeit"
\* (case-insensitively), the game ends on that turn, the other agent is the
\* winner and the reason is "<speaker> forfeited".
C2_Forfeit ==
    (TurnTaken /\ HasKeyword(response, forfeit)) =>
        /\ EndedOnThisTurn
        /\ LastRow.winner = ModelOf(Opponent(Speaker))
        /\ LastRow.reason = <<Speaker>> \o forfeited_suffix

\* Scenario A: A replies "Elephant", B replies "I forfeit the game."
C2_Witness ==
    /\ TurnTaken
    /\ Len(messages) = 4
    /\ messages[3].content = <<"E","l","e","p","h","a","n","t">>
    /\ response = <<"I"," ","f","o","r","f","e","i","t"," ","t","h","e"," ","g","a","m","e",".">>
    /\ csv # <<>>
    /\ LastRow = [experiment_number |-> experiment, winner |-> "Model A",
                  reason |-> <<"B"," ","f","o","r","f","e","i","t","e","d">>]

-----------------------------------------------------------------------------
(* C3 *)

\* C3: whenever the reply contains "disqualified" and not "forfeit", the game
\* ends on that turn, the agent that uttered the reply wins and the reason is
\* "<other agent> disqualified: <trimmed reply>".
C3_AccuserWins ==
    (TurnTaken /\ HasKeyword(response, disqualified) /\ ~HasKeyword(response, forfeit)) =>
        /\ EndedOnThisTurn
        /\ LastRow.winner = ModelOf(Speaker)
        /\ LastRow.reason = <<Opponent(Speaker)>> \o disqualified_infix \o Trimmed(response)

C3_Witness ==
    /\ TurnTaken
    /\ Speaker = "B"
    /\ HasKeyword(response, disqualified)
    /\ Len(response) > Len(Trimmed(response))
    /\ csv # <<>>
    /\ LastRow.winner = "Model B"
    /\ Head(LastRow.reason) = "A"

-----------------------------------------------------------------------------
(* C4 *)

\* C4 (as stated): when a reply containing "disqualified" ends the game, the
\* opponent of the agent that spoke that reply wins.
C4_AsStated ==
    (TurnTaken /\ HasKeyword(response, disqualified) /\ EndedOnThisTurn) =>
        LastRow.winner = ModelOf(Opponent(Speaker))

\* C4 (amended): when a reply containing "disqualified" ends the game, the
\* winner is the agent that spoke it, never the agent the reason names as
\* disqualified; the speaker's opponent wins only when the reply also
\* contains "forfeit".
C4_SpeakerWinsUnlessForfeit ==
    (TurnTaken /\ HasKeyword(response, disqualified) /\ EndedOnThisTurn) =>
        IF HasKeyword(response, forfeit)
        THEN LastRow.winner = ModelOf(Opponent(Speaker))
        ELSE /\ LastRow.winner = ModelOf(Speaker)
             /\ LastRow.winner # ModelOf(Head(LastRow.reason))

C4_Witness ==
    /\ TurnTaken
    /\ Speaker = "A"
    /\ HasKeyword(response, disqualified)
    /\ ~HasKeyword(response, forfeit)
    /\ EndedOnThisTurn
    /\ LastRow.winner = "Model A"
    /\ Head(LastRow.reason) = "B"

-----------------------------------------------------------------------------
(* C5 *)

NoKeyword(text) == ~HasKeyword(text, forfeit) /\ ~HasKeyword(text, disqualified)

\* The current game has a row naming one of the two models as winner.
DecidedForAModel ==
    \E k \in RowsOf(experiment) : csv[k].winner \in {"Model A", "Model B"}

\* C5: a keyword-free reply whose trimmed length exceeds 30 ends the game on
\* that turn, the other agent wins and the reason is "<speaker> response too
\* long (so not an animal)"; a keyword-free reply whose trimmed length is at
\* most 30 does not end the game: the game goes on, or, on the last turn,
\* ends without a winner.
C5_TooLong ==
    (TurnTaken /\ NoKeyword(response)) =>
        IF Len(Trimmed(response)) > MaxLen
        THEN /\ EndedOnThisTurn
             /\ LastRow.winner = ModelOf(Opponent(Speaker))
             /\ LastRow.reason = <<Speaker>> \o too_long_suffix
        ELSE /\ ~DecidedForAModel
             /\ Len(speakers) <= max_turns => pc \in {"game", "crashed"}

\* Game 1 was lost by A on turn 0 with a 31-character reply; in game 2 a reply
\* of 32 raw characters that trims to exactly 30 leaves the game running.
C5_Witness ==
    /\ experiment = 2
    /\ csv = << [experiment_number |-> 1, winner |-> "Model B",
                 reason |-> <<"A">> \o too_long_suffix] >>
    /\ pc = "game"
    /\ TurnTaken
    /\ NoKeyword(response)
    /\ Len(response) > MaxLen
    /\ Len(Trimmed(response)) = MaxLen

-----------------------------------------------------------------------------
(* C6 *)

\* The first rule, in the order forfeit, disqualified, too long, that the
\* reply matches ("none" when it matches no rule).
FirstMatch(text) ==
    IF HasKeyword(text, forfeit) THEN "forfeit"
    ELSE IF HasKeyword(text, disqualified) THEN "disqualified"
    ELSE IF Len(Trimmed(text)) > MaxLen THEN "too long"
    ELSE "none"

IsPrefix(p, q) == Len(p) <= Len(q) /\ SubSeq(q, 1, Len(p)) = p

\* Which rule a recorded reason belongs to.
ReasonKind(reason) ==
    IF reason = no_conclusion THEN "none"
    ELSE IF Tail(reason) = forfeited_suffix THEN "forfeit"
    ELSE IF Tail(reason) = too_long_suffix THEN "too long"
    ELSE IF IsPrefix(disqualified_infix, Tail(reason)) THEN "disqualified"
    ELSE "unknown"

\* C6: the rules are tried in the order forfeit, disqualified, too long and
\* the first match decides the recorded reason; a reply containing "forfeit"
\* is recorded as a forfeit lost by the speaker even when it is longer than 30
\* characters or also contains "disqualified".
C6_ForfeitFirst ==
    /\ (TurnTaken /\ GameReturned) =>
          /\ csv # <<>>
          /\ ReasonKind(LastRow.reason) = FirstMatch(response)
    /\ (TurnTaken /\ HasKeyword(response, forfeit)
          /\ (Len(Trimmed(response)) > MaxLen \/ HasKeyword(response, disqualified))) =>
          /\ GameReturned
          /\ csv # <<>>
          /\ LastRow.reason = <<Speaker>> \o forfeited_suffix
          /\ LastRow.winner = ModelOf(Opponent(Speaker))

\* "You are disqualified, I forfeit": both keywords and 31 characters.
C6_Witness ==
    /\ TurnTaken
    /\ HasKeyword(response, forfeit)
    /\ HasKeyword(response, disqualified)
    /\ Len(Trimmed(response)) > MaxLen
    /\ GameReturned
    /\ csv # <<>>
    /\ ReasonKind(LastRow.reason) = "forfeit"

-----------------------------------------------------------------------------
(* C7 *)

\* C7: a reply that contains "disqualified", not "forfeit", and is longer
\* than 30 characters is recorded as a disqualification ("<accused>
\* disqualified: ..."), never as a too-long response.
C7_DisqualifiedBeforeTooLong ==
    (TurnTaken /\ HasKeyword(response, disqualified) /\ ~HasKeyword(response, forfeit)
        /\ Len(Trimmed(response)) > MaxLen) =>
        /\ GameReturned
        /\ csv # <<>>
        /\ IsPrefix(<<Opponent(Speaker)>> \o disqualified_infix, LastRow.reason)
        /\ LastRow.reason # <<Speaker>> \o too_long_suffix
        /\ LastRow.reason # <<Opponent(Speaker)>> \o too_long_suffix

C7_Witness ==
    /\ TurnTaken
    /\ HasKeyword(response, disqualified)
    /\ ~HasKeyword(response, forfeit)
    /\ Len(Trimmed(response)) > MaxLen
    /\ GameReturned
    /\ csv # <<>>
    /\ ReasonKind(LastRow.reason) = "disqualified"

-----------------------------------------------------------------------------
(* C8 *)

\* No recorded reply of the current game matches a termination rule.
NoReplyMatched ==
    \A k \in 3..Len(messages) : FirstMatch(messages[k].content) = "none"

\* C8: when none of the replies of turns 0..max_turns matches a rule, the
\* game has made exactly max_turns + 1 chat calls and its row is "No winner" /
\* "No conclusion"; and a returned game has a "No winner" row only in that
\* case.
C8_Exhaustion ==
    /\ (Len(speakers) = max_turns + 1 /\ NoReplyMatched) =>
          /\ GameReturned
          /\ calls = max_turns + 1
          /\ csv # <<>>
          /\ LastRow = [experiment_number |-> experiment, winner |-> "No winner",
                        reason |-> no_conclusion]
    /\ (GameReturned /\ csv # <<>> /\ LastRow.winner = "No winner") =>
          /\ LastRow.reason = no_conclusion
          /\ Len(speakers) = max_turns + 1
          /\ calls = max_turns + 1
          /\ Len(messages) = max_turns + 3
          /\ NoReplyMatched
    /\ \A k \in 1..Len(csv) :
          (csv[k].winner = "No winner") <=> (csv[k].reason = no_conclusion)

\* Scenario C: max_turns = 0 and one reply that matches no rule.
C8_Witness ==
    /\ max_turns = 0
    /\ GameReturned
    /\ calls = 1
    /\ Len(messages) = 3
    /\ FirstMatch(response) = "none"
    /\ csv # <<>>
    /\ LastRow = [experiment_number |-> experiment, winner |-> "No winner",
                  reason |-> no_conclusion]

-----------------------------------------------------------------------------
(* C9 *)

OppositeRole(role) == CASE role = "user" -> "assistant"
                        [] role = "assistant" -> "user"

\* C9: swapping twice gives back the original message list, and at every
\* position whose role is user or assistant the swapped list has the opposite
\* role.
C9_SwapInvolution ==
    /\ pc \in {"swap1", "swap2"} =>
          /\ Len(swap_out) = Len(swap_in)
          /\ \A k \in 1..Len(swap_in) :
                swap_in[k].role \in {"user", "assistant"} =>
                    swap_out[k].role = OppositeRole(swap_in[k].role)
    /\ pc = "swap2" => swap_back = swap_in

C9_Witness ==
    /\ pc = "swap2"
    /\ Len(swap_in) = 3
    /\ swap_in[1].role = "system"
    /\ swap_in[2].role = "user"
    /\ swap_in[3].role = "assistant"
    /\ swap_out # swap_in
    /\ swap_back = swap_in

-----------------------------------------------------------------------------
(* C10 *)

\* C10: in the message list passed to the active agent, every prior reply of
\* that agent has role assistant and every prior reply of its opponent has
\* role user; after the leading system message the roles alternate and the
\* last message has role user.
C10_Perspective ==
    sent # <<>> =>
        /\ Len(sent) >= 2
        /\ Len(speakers) >= Len(sent) - 2
        /\ sent[1].role = "system"
        /\ \A k \in 3..Len(sent) :
              sent[k].role = IF speakers[k - 2] = sent_to THEN "assistant" ELSE "user"
        /\ \A k \in 2..Len(sent) : sent[k].role \in {"user", "assistant"}
        /\ \A k \in 2..(Len(sent) - 1) : sent[k].role # sent[k + 1].role
        /\ sent[Len(sent)].role = "user"

\* Turn 3: B receives its own reply of turn 1 as assistant and A's replies of
\* turns 0 and 2 as user.
C10_Witness ==
    /\ sent_to = "B"
    /\ Len(sent) = 5
    /\ speakers[1] = "A" /\ speakers[2] = "B" /\ speakers[3] = "A"
    /\ sent[3].role = "user"
    /\ sent[4].role = "assistant"
    /\ sent[5].role = "user"
    /\ messages[4].role = "user"

-----------------------------------------------------------------------------
(* C11 *)

\* A chat call of the current game produced no reply.
ChatFailed == calls > Len(speakers)

-----------------------------------------------------------------------------
(* C12 *)

\* C12: when a chat call fails the game is aborted without a row: the step
\* of the failure writes nothing, the file holds no row for that game id, the
\* rows of the earlier games stay as they were, and nothing is written later.
C12_FailureLeavesNoRow ==
    [][ /\ ChatFailed' =>
              /\ csv' = csv
              /\ \A k \in 1..Len(csv') : csv'[k].experiment_number < experiment'
              /\ Len(csv') = experiment' - 1
        /\ ChatFailed => csv' = csv /\ ChatFailed' ]_vars

\* Game 2 fails on its second call; the row of game 1 is all the file holds.
C12_Witness ==
    /\ ChatFailed
    /\ experiment = 2
    /\ calls = 2
    /\ Len(csv) = 1
    /\ csv[1].experiment_number = 1

-----------------------------------------------------------------------------
(* C13 *)

\* C13 (as stated): after a chat failure in game k the runner still runs the
\* games k+1..N.
C13_AsStated ==
    (ChatFailed /\ experiment < num_experiments) => ENABLED StartGame

\* C13 (amended): a chat failure in game k ends the whole run: no step
\* follows it, the games k+1..N are never started and the file holds rows for
\* the games 1..k-1 only.
C13_FailureAbortsRun ==
    ChatFailed =>
        /\ pc = "crashed"
        /\ ~ENABLED Next
        /\ Len(csv) = experiment - 1
        /\ \A k \in 1..Len(csv) : csv[k].experiment_number < experiment

C13_Witness ==
    /\ ChatFailed
    /\ experiment = 1
    /\ num_experiments = 2
    /\ csv = <<>>

-----------------------------------------------------------------------------
(* C14 *)

\* The transcript as it was when the last chat call was made.
CanonicalAtCall == SubSeq(messages, 1, Len(sent))
TurnsOf(agent) == Cardinality({k \in 1..Len(speakers) : speakers[k] = agent})

\* C14: turn i is played by A when i is even and by B when i is odd; A is
\* called with the transcript as stored, B with the transcript in which user
\* and assistant are exchanged and everything else is kept; A moves first and
\* the number of A turns exceeds the number of B turns by 0 or 1.
C14_Alternation ==
    /\ \A k \in 1..Len(speakers) :
          speakers[k] = IF (k - 1) % 2 = 0 THEN "A" ELSE "B"
    /\ TurnsOf("A") - TurnsOf("B") \in {0, 1}
    /\ calls >= 1 =>
          /\ sent_to = IF (calls - 1) % 2 = 0 THEN "A" ELSE "B"
          /\ Len(sent) = calls + 1
          /\ sent_to = "A" => sent = CanonicalAtCall
          /\ sent_to = "B" =>
                \A k \in 1..Len(sent) :
                    /\ sent[k].content = CanonicalAtCall[k].content
                    /\ sent[k].role =
                          IF CanonicalAtCall[k].role = "user" THEN "assistant"
                          ELSE IF CanonicalAtCall[k].role = "assistant" THEN "user"
                          ELSE CanonicalAtCall[k].role

C14_Witness ==
    /\ speakers = <<"A", "B">>
    /\ sent_to = "B"
    /\ pc = "game"
    /\ sent[2].role = "assistant" /\ messages[2].role = "user"
    /\ sent[3].role = "user" /\ messages[3].role = "assistant"

-----------------------------------------------------------------------------
(* C15 *)

\* C15: after k completed turns the transcript has k + 2 messages: the system
\* instruction, the starting token with role user, then the reply of turn i
\* at position i + 3 (counting from 1) with role assistant for even i and
\* user for odd i; within a game a step only appends: every message already
\* in the transcript stays where and as it was.
C15_CanonicalTranscript ==
    /\ [](experiment >= 1 =>
            /\ Len(messages) = Len(speakers) + 2
            /\ messages[1] = [role |-> "system", content |-> system_prompt]
            /\ messages[2] = [role |-> "user", content |-> starting_animal]
            /\ \A t \in 0..(Len(speakers) - 1) :
                  messages[t + 3].role = IF t % 2 = 0 THEN "assistant" ELSE "user"
            /\ TurnTaken => messages[Len(messages)].content = Trimmed(response))
    /\ [][experiment' = experiment =>
            /\ Len(messages') \in {Len(messages), Len(messages) + 1}
            /\ SubSeq(messages', 1, Len(messages)) = messages]_vars

C15_Witness ==
    /\ Len(speakers) = 4
    /\ Len(messages) = 6
    /\ messages[3].role = "assistant"
    /\ messages[4].role = "user"
    /\ messages[5].role = "assistant"
    /\ messages[6].role = "user"
    /\ Len(response) > Len(messages[6].content)

-----------------------------------------------------------------------------
(* C16 *)

\* C16: a reply that matches a termination rule is the last thing the game
\* does: it is the last message of the transcript, the game has returned, it
\* made exactly i + 1 chat calls (one per turn), it has exactly one row, and
\* that row is not "No conclusion"; as long as no call fails, the number of
\* calls equals the number of replies.
C16_StopOnTermination ==
    /\ \A k \in 3..Len(messages) :
          FirstMatch(messages[k].content) # "none" =>
              /\ k = Len(messages)
              /\ GameReturned
              /\ i = k - 3
              /\ calls = i + 1
              /\ Len(speakers) = i + 1
              /\ Cardinality(RowsOf(experiment)) = 1
              /\ LastRow.experiment_number = experiment
              /\ LastRow.reason # no_conclusion
              /\ LastRow.winner # "No winner"
    /\ pc # "crashed" => calls = Len(speakers)

\* The game is decided on turn 2 by a reply of A.
C16_Witness ==
    /\ GameReturned
    /\ i = 2
    /\ calls = 3
    /\ Len(messages) = 5
    /\ FirstMatch(messages[5].content) = "too long"
    /\ max_turns = 3
    /\ Cardinality(RowsOf(experiment)) = 1

-----------------------------------------------------------------------------
(* C17 *)

\* C17: when every chat call returns, a game never takes more than
\* max_turns + 1 turns, every game that was started returns with its row, and
\* run_experiments reaches its end with all N games recorded.
C17_Termination ==
    /\ [](Len(speakers) <= max_turns + 1 /\ calls <= max_turns + 1)
    /\ \A g \in 1..MaxExperiments :
          (experiment = g /\ pc = "game") ~> (experiment = g /\ pc = "runner" /\ Len(csv) = g)
    /\ <>[](pc = "end" /\ experiment = num_experiments /\ Len(csv) = num_experiments)

C17_Witness ==
    /\ pc = "end"
    /\ num_experiments = 2
    /\ max_turns = 3
    /\ Len(speakers) = 4
    /\ Len(csv) = 2

-----------------------------------------------------------------------------
(* C18 *)

\* C18: swap_roles returns a list of the same length in which every content
\* is the content at the same position of its argument and every role other
\* than user and assistant is kept; the argument itself is left as it was.
C18_SwapChangesRolesOnly ==
    /\ [](pc \in {"swap1", "swap2"} =>
            /\ Len(swap_out) = Len(swap_in)
            /\ \A k \in 1..Len(swap_in) :
                  /\ swap_out[k].content = swap_in[k].content
                  /\ swap_in[k].role \notin {"user", "assistant"} =>
                        swap_out[k].role = swap_in[k].role)
    /\ [](pc = "swap2" =>
            /\ Len(swap_back) = Len(swap_out)
            /\ \A k \in 1..Len(swap_out) : swap_back[k].content = swap_out[k].content)
    /\ [][swap_in' = swap_in /\ (pc # "swap0" => swap_out' = swap_out)]_vars

C18_Witness ==
    /\ pc = "swap1"
    /\ Len(swap_in) = 3
    /\ swap_in[1].role = "system"
    /\ swap_in[2].role = "tool"
    /\ swap_in[3].role = "user"
    /\ swap_in[1].content # swap_in[2].content
    /\ swap_out[1].role = "system"
    /\ swap_out[2].role = "tool"
    /\ swap_out[3].role = "assistant"

-----------------------------------------------------------------------------
(* C19 *)

FreshTranscript ==
    << [role |-> "system", content |-> system_prompt],
       [role |-> "user", content |-> starting_animal] >>

\* C19: every game starts at turn 0 with the transcript holding the system
\* instruction and the starting token (role user) and nothing else, and its
\* first chat call goes to A with exactly these two messages, whatever the
\* earlier games did.
C19_FreshStart ==
    /\ (experiment >= 1 /\ calls = 0) =>
          /\ pc = "game"
          /\ i = 0
          /\ messages = FreshTranscript
          /\ speakers = <<>>
    /\ calls = 1 => sent_to = "A" /\ sent = FreshTranscript
    /\ experiment >= 1 => SubSeq(messages, 1, 2) = FreshTranscript
    /\ Len(messages) <= max_turns + 3

\* Game 1 ran two turns (B forfeited); game 2 makes its first call.
C19_Witness ==
    /\ experiment = 2
    /\ csv = << [experiment_number |-> 1, winner |-> "Model A",
                 reason |-> <<"B">> \o forfeited_suffix] >>
    /\ calls = 1
    /\ sent_to = "A"
    /\ sent = FreshTranscript

-----------------------------------------------------------------------------
(* C20 *)

\* The row the last reply alone calls for, given who spoke it.
RowFor(g, text, agent) ==
    LET kind == FirstMatch(text)
    IN  IF kind = "forfeit"
        THEN [experiment_number |-> g, winner |-> ModelOf(Opponent(agent)),
              reason |-> <<agent>> \o forfeited_suffix]
        ELSE IF kind = "disqualified"
        THEN [experiment_number |-> g, winner |-> ModelOf(agent),
              reason |-> <<Opponent(agent)>> \o disqualified_infix \o Trimmed(text)]
        ELSE IF kind = "too long"
        THEN [experiment_number |-> g, winner |-> ModelOf(Opponent(agent)),
              reason |-> <<agent>> \o too_long_suffix]
        ELSE [experiment_number |-> g, winner |-> "No winner", reason |-> no_conclusion]

\* C20: every recorded reply other than the most recent one contains neither
\* keyword and has at most 30 characters; the row of a returned game is the
\* one its last reply and the speaker of that reply call for.
C20_OnlyLastReplyDecides ==
    /\ \A k \in 3..(Len(messages) - 1) :
          /\ ~HasKeyword(messages[k].content, forfeit)
          /\ ~HasKeyword(messages[k].content, disqualified)
          /\ Len(messages[k].content) <= MaxLen
    /\ (GameReturned /\ TurnTaken) =>
          /\ csv # <<>>
          /\ LastRow = RowFor(experiment, response, speakers[Len(speakers)])

\* Three replies that match no rule, then B's reply on turn 3 calls A disqualified.
C20_Witness ==
    /\ GameReturned
    /\ Len(messages) = 6
    /\ \A k \in 3..5 : FirstMatch(messages[k].content) = "none"
    /\ FirstMatch(response) = "disqualified"
    /\ csv # <<>>
    /\ LastRow.winner = "Model B"

====
